---- MODULE Spec2Model ----
(***************************************************************************)
(* Grade-management backend (src/backend): the document store (users,      *)
(* subjects, grades), the grade handlers of api_routes_part2.py, the user  *)
(* and subject handlers of api_routes.py, and the weighted average of      *)
(* calculate_student_average.                                              *)
(*                                                                         *)
(* Units.  Grade values are whole points, coefficients are tenths (10 is   *)
(* the coefficient 1.0) and averages are hundredths (1333 is 13.33), so    *)
(* that all arithmetic is exact integer arithmetic.  The unrounded means   *)
(* the code keeps in floats are kept as fractions [n, d].                  *)
(*                                                                         *)
(* Atomicity.  The store is an external database (server.py:38-40) shared  *)
(* by every server worker; a handler is a sequence of independent store    *)
(* operations with no transaction around them.  Each store operation is    *)
(* one step; the local computation that follows it belongs to that step.   *)
(***************************************************************************)
EXTENDS Integers, Sequences, FiniteSets, TLC

\* ------------------------------------------------------------------ bounds
MaxGrades == 4          \* grades in the store of an averaging run (SpecAvg)
MaxStoreGrades == 2     \* grades inserted in a run of the store handlers (Spec)
MaxWorkers == 2         \* server workers: requests in flight at a time
MaxTranscripts == 2     \* transcripts generated in a run of the readers
MaxRegistrations == 2   \* accounts registered in a run of the registrations

\* ------------------------------------------------------- program constants
MinValue == 0           \* GradeCreate.value ge
MaxValue == 20          \* GradeCreate.value le

ADMIN == "ADMIN"
STUDENT == "STUDENT"
TEACHER == "TEACHER"

\* The account create_default_admin inserts at startup.
AdminId == "admin"

\* ------------------------------------------------------------------- state
VARIABLES
    users,      \* db.users: _id -> [role]
    subjects,   \* db.subjects: _id -> [coefficient]
    grades,     \* db.grades in natural (insertion) order:
                \*   sequence of [id, student_id, subject_id, value]
    avg,        \* the calculate_student_average request in flight
    cg,         \* the create_grade request in flight
    ug,         \* the update_grade request in flight
    dg,         \* the delete_grade request in flight
    du,         \* the delete_user request in flight
    nextGradeId,\* the next fresh uuid4 of create_grade
    deleted,    \* history: the user ids delete_user has answered 200 for
    gsg,        \* the get_student_grades request in flight
    tp,         \* the generate_transcript_pdf request in flight
    transcripts,\* db.transcripts in insertion order:
                \*   sequence of [id, student_id, status, semester]
    nextTranscriptId,   \* the next fresh uuid4 of generate_transcript_pdf
    rs,         \* the register_student request in flight on each worker
    rt,         \* the register_teacher request in flight
    nextUserId, \* the next fresh uuid4 of register_student/register_teacher
    tokens,     \* history: the access tokens login has issued, each with
                \*   the _id of the account it was issued to
    au,         \* the get_current_user_info request in flight
    clock,      \* datetime.utcnow() of the last authentication step, in
                \*   minutes
    snaps       \* history: the lists of grades db.grades has held for the
                \*   student of the calculate_student_average request since
                \*   the request was taken, up to its response

storeVars == <<users, subjects, grades>>
gradeReqVars == <<cg, ug, dg, du, nextGradeId, deleted>>
readVars == <<gsg, tp, transcripts, nextTranscriptId>>
regVars == <<rs, rt, nextUserId>>
authVars == <<tokens, au, clock>>

\* --------------------------------------------------------------- utilities
RECURSIVE SumSeq(_)
SumSeq(s) == IF s = <<>> THEN 0 ELSE Head(s) + SumSeq(Tail(s))

\* Variant: db.grades.find({}) without the student filter.
SelectGrades_all(gs, student_id) == gs

RECURSIVE SelectGrades(_, _)
\* db.grades.find({"student_id": student_id}), in natural order
SelectGrades(gs, student_id) ==
    IF gs = <<>> THEN <<>>
    ELSE IF Head(gs).student_id = student_id
         THEN <<Head(gs)>> \o SelectGrades(Tail(gs), student_id)
         ELSE SelectGrades(Tail(gs), student_id)

\* Variant: round(n/d, 1), one decimal place only.
Round2_one_decimal(n, d) ==
    LET q == (10 * n) \div d
        r == (10 * n) % d
    IN  10 * (IF 2 * r < d THEN q
              ELSE IF 2 * r > d THEN q + 1
              ELSE IF q % 2 = 0 THEN q ELSE q + 1)

\* round(n/d, 2) in hundredths, for n >= 0 and d > 0: the nearest hundredth,
\* a tie going to the even one (Python's round).
Round2(n, d) ==
    LET q == (100 * n) \div d
        r == (100 * n) % d
    IN  IF 2 * r < d THEN q
        ELSE IF 2 * r > d THEN q + 1
        ELSE IF q % 2 = 0 THEN q ELSE q + 1

\* Optional[...]: None is the empty sequence, a value v is <<v>>.
None == <<>>
Some(v) == <<v>>

\* ----------------------------------------------------------------- workers
Idle == [pc |-> "idle"]
Done(status) == [pc |-> "done", status |-> status]

\* The user document get_current_user returns for the caller's token, by
\* the fields the handlers read.
CurrentUser(caller) == [id |-> caller, role |-> users[caller].role]

\* require_role refuses the caller: 403.
Refused(caller) ==
    [pc |-> "done", status |-> 403, current_user |-> CurrentUser(caller)]

\* A handler is a coroutine without await: a worker runs it from the request
\* to the response before it takes another request.
Requests == <<cg, ug, dg, du, avg, gsg, tp, rt, au>> \o rs
InFlight == Cardinality({k \in DOMAIN Requests : Requests[k].pc # "idle"})
WorkerFree == InFlight < MaxWorkers

\* No read request is in flight and no transcript was generated yet.
NoReadRequests ==
    /\ gsg = Idle /\ tp = Idle
    /\ transcripts = <<>>
    /\ nextTranscriptId = 1

\* No registration is in flight and no account was registered yet.
NoRegistrations ==
    /\ rs = [w \in 1..MaxWorkers |-> Idle]
    /\ rt = Idle
    /\ nextUserId = 1

\* No token was issued and no authenticated request is in flight.
NoAuth ==
    /\ tokens = {}
    /\ au = Idle
    /\ clock = 0

\* The grades of a student in the store gs, in natural order.
StudentGrades(gs, student_id) ==
    LET mine(g) == g.student_id = student_id
    IN  SelectSeq(gs, mine)

\* The history after a write that leaves db.grades as gs: while the
\* calculate_student_average request is in flight, the list its student
\* has in gs is recorded.
Recorded(gs) ==
    IF avg.pc \in {"fetch", "group"}
    THEN snaps \cup {StudentGrades(gs, avg.student_id)}
    ELSE snaps

\* ---------------------------------------------- calculate_student_average
AvgIdle == [pc |-> "idle"]

\* The permission test of lines 277-282.
average_forbidden(caller, student_id) ==
    /\ users[caller].role = STUDENT
    /\ caller # student_id
    /\ users[caller].role \notin {TEACHER, ADMIN}

\* Position of subject_id among the keys of subjects_data, 0 when absent.
KeyIndex(subjects_data, subject_id) ==
    LET hits == {k \in 1..Len(subjects_data) :
                    subjects_data[k].subject_id = subject_id}
    IN  IF hits = {} THEN 0 ELSE CHOOSE k \in hits : TRUE

\* Variant: a missing subject is given the default coefficient 1.0, as
\* get_student_grades does.
group_grade_default(subjects_data, grade, subjs) ==
    LET subject_id == grade.subject_id
        looked == IF KeyIndex(subjects_data, subject_id) = 0
                  THEN Append(subjects_data,
                              [subject_id  |-> subject_id,
                               coefficient |->
                                  IF subject_id \in DOMAIN subjs
                                  THEN subjs[subject_id].coefficient ELSE 10,
                               grades      |-> <<>>])
                  ELSE subjects_data
        k == KeyIndex(looked, subject_id)
    IN  [looked EXCEPT ![k].grades = Append(@, grade.value)]

\* Variant: a subject seen for the first time is put in front of the
\* subjects seen before.
group_grade_front(subjects_data, grade, subjs) ==
    LET subject_id == grade.subject_id
        looked == IF KeyIndex(subjects_data, subject_id) = 0
                     /\ subject_id \in DOMAIN subjs
                  THEN <<[subject_id  |-> subject_id,
                          coefficient |-> subjs[subject_id].coefficient,
                          grades      |-> <<>>]>> \o subjects_data
                  ELSE subjects_data
        k == KeyIndex(looked, subject_id)
    IN  IF k = 0 THEN looked
        ELSE [looked EXCEPT ![k].grades = Append(@, grade.value)]

\* One iteration of the grouping loop, lines 298-310.
group_grade(subjects_data, grade, subjs) ==
    LET subject_id == grade.subject_id
        looked == IF KeyIndex(subjects_data, subject_id) = 0
                     /\ subject_id \in DOMAIN subjs
                  THEN Append(subjects_data,
                              [subject_id  |-> subject_id,
                               coefficient |-> subjs[subject_id].coefficient,
                               grades      |-> <<>>])
                  ELSE subjects_data
        k == KeyIndex(looked, subject_id)
    IN  IF k = 0 THEN looked
        ELSE [looked EXCEPT ![k].grades = Append(@, grade.value)]

\* Variant: weighted_sum += round(subject_avg, 2) * coefficient.
add_weighted_rounded(weighted_sum, data) ==
    [n |-> weighted_sum.n * 100
            + Round2(SumSeq(data.grades), Len(data.grades))
                * data.coefficient * weighted_sum.d,
     d |-> weighted_sum.d * 100]

\* Variant: the total of the subject's grades is weighted, not their mean.
add_weighted_total(weighted_sum, data) ==
    [n |-> weighted_sum.n
            + SumSeq(data.grades) * data.coefficient * weighted_sum.d,
     d |-> weighted_sum.d]

\* weighted_sum += subject_avg * coefficient, on fractions.
add_weighted(weighted_sum, data) ==
    [n |-> weighted_sum.n * Len(data.grades)
            + SumSeq(data.grades) * data.coefficient * weighted_sum.d,
     d |-> weighted_sum.d * Len(data.grades)]

RECURSIVE aggregate(_, _)
\* The loop of lines 313-330 over subjects_data.items().
aggregate(subjects_data, acc) ==
    IF subjects_data = <<>> THEN acc
    ELSE LET data == Head(subjects_data)
         IN  IF data.grades # <<>>
             THEN aggregate(Tail(subjects_data),
                    [subject_averages |->
                        Append(acc.subject_averages,
                               [subject_id  |-> data.subject_id,
                                average     |-> Round2(SumSeq(data.grades),
                                                       Len(data.grades)),
                                coefficient |-> data.coefficient,
                                grade_count |-> Len(data.grades)]),
                     weighted_sum |-> add_weighted(acc.weighted_sum, data),
                     total_coefficient |->
                        acc.total_coefficient + data.coefficient])
             ELSE aggregate(Tail(subjects_data), acc)

\* Variant: no guard on total_coefficient; the division by zero raises and
\* the request ends in 500.
build_report_unguarded(student_id, subjects_data, semester) ==
    LET acc == aggregate(subjects_data,
                         [subject_averages  |-> <<>>,
                          weighted_sum      |-> [n |-> 0, d |-> 1],
                          total_coefficient |-> 0])
    IN  IF acc.total_coefficient = 0 THEN [status |-> 500]
        ELSE [status            |-> 200,
              student_id        |-> student_id,
              general_average   |->
                 Round2(acc.weighted_sum.n,
                        acc.weighted_sum.d * acc.total_coefficient),
              subject_averages  |-> acc.subject_averages,
              total_coefficient |-> acc.total_coefficient,
              semester          |-> semester]

\* Variant: when a semester is given, only the subjects tagged with it are
\* aggregated; no subject document carries such a tag.
build_report_of_semester(student_id, subjects_data, semester) ==
    LET tagged(data) == semester = None
        acc == aggregate(SelectSeq(subjects_data, tagged),
                         [subject_averages  |-> <<>>,
                          weighted_sum      |-> [n |-> 0, d |-> 1],
                          total_coefficient |-> 0])
    IN  [status            |-> 200,
         student_id        |-> student_id,
         general_average   |->
            IF acc.total_coefficient > 0
            THEN Round2(acc.weighted_sum.n,
                        acc.weighted_sum.d * acc.total_coefficient)
            ELSE 0,
         subject_averages  |-> acc.subject_averages,
         total_coefficient |-> acc.total_coefficient,
         semester          |-> semester]

\* Lines 312-341: the report built from subjects_data.
build_report(student_id, subjects_data, semester) ==
    LET acc == aggregate(subjects_data,
                         [subject_averages  |-> <<>>,
                          weighted_sum      |-> [n |-> 0, d |-> 1],
                          total_coefficient |-> 0])
    IN  [status            |-> 200,
         student_id        |-> student_id,
         general_average   |->
            IF acc.total_coefficient > 0
            THEN Round2(acc.weighted_sum.n,
                        acc.weighted_sum.d * acc.total_coefficient)
            ELSE 0,
         subject_averages  |-> acc.subject_averages,
         total_coefficient |-> acc.total_coefficient,
         semester          |-> semester]

\* Variant: the student is looked up first, as generate_transcript_pdf does.
empty_report_checked(student_id, semester) ==
    IF student_id \in DOMAIN users
    THEN [status            |-> 200,
          student_id        |-> student_id,
          general_average   |-> 0,
          subject_averages  |-> <<>>,
          total_coefficient |-> 0,
          semester          |-> semester]
    ELSE [status |-> 404]

\* Lines 287-294: the report of a student without grades.
empty_report(student_id, semester) ==
    [status            |-> 200,
     student_id        |-> student_id,
     general_average   |-> 0,
     subject_averages  |-> <<>>,
     total_coefficient |-> 0,
     semester          |-> semester]

\* The response to the request req: the grades it fetched and its report.
AvgDone(req, fetched, report) ==
    [pc |-> "done", current_user |-> req.current_user,
     student_id |-> req.student_id, semester |-> req.semester,
     grades |-> fetched, report |-> report]

\* Request arrives; get_current_user resolved the caller; permission test.
calculate_student_average_begin(caller, student_id, semester) ==
    /\ avg.pc = "idle"
    /\ WorkerFree
    /\ caller \in DOMAIN users
    /\ LET req == [pc |-> "fetch", current_user |-> CurrentUser(caller),
                   student_id |-> student_id, semester |-> semester]
       IN  avg' = IF average_forbidden(caller, student_id)
                  THEN AvgDone(req, <<>>, [status |-> 403])
                  ELSE req
    /\ snaps' = IF average_forbidden(caller, student_id) THEN {}
                ELSE {StudentGrades(grades, student_id)}
    /\ UNCHANGED <<authVars, readVars, regVars, storeVars, gradeReqVars>>

\* Line 285 and the early return of lines 287-294.
calculate_student_average_fetch ==
    /\ avg.pc = "fetch"
    /\ LET fetched == SelectGrades(grades, avg.student_id)
       IN  avg' = IF fetched = <<>>
                  THEN AvgDone(avg, fetched,
                               empty_report(avg.student_id, avg.semester))
                  ELSE [pc |-> "group", current_user |-> avg.current_user,
                        student_id |-> avg.student_id,
                        semester |-> avg.semester,
                        grades |-> fetched, i |-> 1, subjects_data |-> <<>>]
    /\ UNCHANGED <<authVars, snaps, readVars, regVars, storeVars, gradeReqVars>>

\* Variant: each iteration reads the value of its grade again from
\* db.grades (the fetched copy when the grade is gone).
calculate_student_average_group_requery ==
    /\ avg.pc = "group"
    /\ LET fetched == avg.grades[avg.i]
           now == {k \in 1..Len(grades) : grades[k].id = fetched.id}
           grade == IF now = {} THEN fetched
                    ELSE grades[CHOOSE k \in now : TRUE]
           sd == group_grade(avg.subjects_data, grade, subjects)
       IN  avg' = IF avg.i = Len(avg.grades)
                  THEN AvgDone(avg, avg.grades,
                               build_report(avg.student_id, sd, avg.semester))
                  ELSE [avg EXCEPT !.i = @ + 1, !.subjects_data = sd]
    /\ UNCHANGED <<authVars, snaps, readVars, regVars, storeVars, gradeReqVars>>

\* One iteration of the loop of lines 298-310 (it reads db.subjects); the
\* last iteration is followed by lines 312-341, which read no store.
calculate_student_average_group ==
    /\ avg.pc = "group"
    /\ LET sd == group_grade(avg.subjects_data, avg.grades[avg.i], subjects)
       IN  avg' = IF avg.i = Len(avg.grades)
                  THEN AvgDone(avg, avg.grades,
                               build_report(avg.student_id, sd, avg.semester))
                  ELSE [avg EXCEPT !.i = @ + 1, !.subjects_data = sd]
    /\ UNCHANGED <<authVars, snaps, readVars, regVars, storeVars, gradeReqVars>>

\* The response is sent; the next request may be taken.
calculate_student_average_return ==
    /\ avg.pc = "done"
    /\ avg' = AvgIdle
    /\ snaps' = {}
    /\ UNCHANGED <<authVars, readVars, regVars, storeVars, gradeReqVars>>

\* ------------------------------------------------------------ require_role
\* Variant: any authenticated user passes, as with Depends(get_current_user).
role_allowed_authenticated(caller, required_roles) ==
    users[caller].role \in {ADMIN, STUDENT, TEACHER}

\* role_checker of require_role([TEACHER, ADMIN]), server.py:252-258.
role_allowed(caller, required_roles) == users[caller].role \in required_roles

\* Variant: the upper bound le=20 is missing.
GradeCreate_valid_no_le(value) == MinValue <= value

\* Field(..., ge=0, le=20) of GradeCreate.value.
GradeCreate_valid(value) == MinValue <= value /\ value <= MaxValue

\* Variant: the lower bound ge=0 is missing.
GradeUpdate_valid_no_ge(value) == value = None \/ value[1] <= MaxValue

\* Field(None, ge=0, le=20) of GradeUpdate.value; None is allowed.
GradeUpdate_valid(value) ==
    value = None \/ (MinValue <= value[1] /\ value[1] <= MaxValue)

\* ------------------------------------------------------------ create_grade
\* The request is taken: the caller's role, then the body, are checked.
create_grade_begin(caller, grade_request) ==
    /\ cg.pc = "idle"
    /\ WorkerFree
    /\ caller \in DOMAIN users
    /\ nextGradeId <= MaxStoreGrades
    /\ cg' = IF ~ role_allowed(caller, {TEACHER, ADMIN})
             THEN Refused(caller)
             ELSE IF ~ GradeCreate_valid(grade_request.value)
             THEN [pc |-> "done", status |-> 422,
                   value |-> grade_request.value]
             ELSE [pc |-> "find_student", current_user |-> CurrentUser(caller),
                   student_id |-> grade_request.student_id,
                   subject_id |-> grade_request.subject_id,
                   value |-> grade_request.value,
                   comment |-> grade_request.comment,
                   recorded_by_teacher_id |->
                      grade_request.recorded_by_teacher_id]
    /\ UNCHANGED <<authVars, snaps, readVars, regVars, storeVars, avg, ug, dg, du, nextGradeId, deleted>>

\* Lines 48-53.
create_grade_find_student ==
    /\ cg.pc = "find_student"
    /\ cg' = IF cg.student_id \in DOMAIN users
                /\ users[cg.student_id].role = STUDENT
             THEN [cg EXCEPT !.pc = "find_subject"]
             ELSE [pc |-> "done", status |-> 404, value |-> cg.value]
    /\ UNCHANGED <<authVars, snaps, readVars, regVars, storeVars, avg, ug, dg, du, nextGradeId, deleted>>

\* Lines 56-61.
create_grade_find_subject ==
    /\ cg.pc = "find_subject"
    /\ cg' = IF cg.subject_id \in DOMAIN subjects
             THEN [cg EXCEPT !.pc = "insert"]
             ELSE [pc |-> "done", status |-> 404, value |-> cg.value]
    /\ UNCHANGED <<authVars, snaps, readVars, regVars, storeVars, avg, ug, dg, du, nextGradeId, deleted>>

\* Lines 64-73: the document of the new grade; now is datetime.utcnow().
grade_data(grade_id, req, now) ==
    [id                     |-> grade_id,
     student_id             |-> req.student_id,
     subject_id             |-> req.subject_id,
     value                  |-> req.value,
     comment                |-> req.comment,
     recorded_by_teacher_id |->
        IF req.recorded_by_teacher_id # None
        THEN req.recorded_by_teacher_id[1] ELSE req.current_user.id,
     date                   |-> now]

\* Lines 64-75, and the response of lines 78-95.
create_grade_insert(now) ==
    /\ cg.pc = "insert"
    /\ grades' = Append(grades, grade_data(nextGradeId, cg, now))
    /\ nextGradeId' = nextGradeId + 1
    /\ cg' = [pc |-> "done", status |-> 200, value |-> cg.value]
    /\ snaps' = Recorded(grades')
    /\ UNCHANGED <<authVars, readVars, regVars, users, subjects, avg, ug, dg, du, deleted>>

create_grade_return ==
    /\ cg.pc = "done"
    /\ cg' = Idle
    /\ UNCHANGED <<authVars, snaps, readVars, regVars, storeVars, avg, ug, dg, du, nextGradeId, deleted>>

\* ------------------------------------------------------------ update_grade
GradeIndex(gs, grade_id) ==
    LET hits == {k \in 1..Len(gs) : gs[k].id = grade_id}
    IN  IF hits = {} THEN 0 ELSE CHOOSE k \in hits : TRUE

update_grade_begin(caller, grade_id, value, comment) ==
    /\ ug.pc = "idle"
    /\ WorkerFree
    /\ caller \in DOMAIN users
    /\ ug' = IF ~ role_allowed(caller, {TEACHER, ADMIN})
             THEN Refused(caller)
             ELSE IF ~ GradeUpdate_valid(value)
             THEN [pc |-> "done", status |-> 422, value |-> value]
             ELSE [pc |-> "find", current_user |-> CurrentUser(caller),
                   grade_id |-> grade_id, value |-> value,
                   comment |-> comment]
    /\ UNCHANGED <<authVars, snaps, readVars, regVars, storeVars, avg, cg, dg, du, nextGradeId, deleted>>

\* Lines 200-205.
update_grade_find ==
    /\ ug.pc = "find"
    /\ ug' = IF GradeIndex(grades, ug.grade_id) # 0
             THEN [ug EXCEPT !.pc = "update_one"]
             ELSE [pc |-> "done", status |-> 404, value |-> ug.value]
    /\ UNCHANGED <<authVars, snaps, readVars, regVars, storeVars, avg, cg, dg, du, nextGradeId, deleted>>

\* Variant: update_data is the whole request body, so that a comment that
\* was not supplied is stored as None.
update_data_whole_body(req, now) ==
    (IF req.value # None THEN [value |-> req.value[1]] ELSE <<>>)
    @@ [comment     |-> req.comment,
        modified_at |-> now,
        modified_by |-> req.current_user.id]

\* Lines 208-215: the fields to set; now is datetime.utcnow().
update_data(req, now) ==
    (IF req.value # None THEN [value |-> req.value[1]] ELSE <<>>)
    @@ (IF req.comment # None THEN [comment |-> req.comment] ELSE <<>>)
    @@ [modified_at |-> now,
        modified_by |-> req.current_user.id]

\* {"$set": fields} on the document doc.
SetFields(doc, fields) ==
    [f \in DOMAIN doc \cup DOMAIN fields |->
        IF f \in DOMAIN fields THEN fields[f] ELSE doc[f]]

\* Lines 208-218: $set on the document of that id; no document, no change.
update_grade_update_one(now) ==
    /\ ug.pc = "update_one"
    /\ LET k == GradeIndex(grades, ug.grade_id)
       IN  grades' = IF k # 0
                     THEN [grades EXCEPT
                             ![k] = SetFields(@, update_data(ug, now))]
                     ELSE grades
    /\ ug' = [ug EXCEPT !.pc = "refetch"]
    /\ snaps' = Recorded(grades')
    /\ UNCHANGED <<authVars, readVars, regVars, users, subjects, avg, cg, dg, du, nextGradeId, deleted>>

\* Lines 221-242: the grade is read again; updated_grade["student_id"] on a
\* grade that is gone raises, which the server answers with 500.
update_grade_refetch ==
    /\ ug.pc = "refetch"
    /\ ug' = IF GradeIndex(grades, ug.grade_id) # 0
             THEN [pc |-> "done", status |-> 200, value |-> ug.value]
             ELSE [pc |-> "done", status |-> 500, value |-> ug.value]
    /\ UNCHANGED <<authVars, snaps, readVars, regVars, storeVars, avg, cg, dg, du, nextGradeId, deleted>>

update_grade_return ==
    /\ ug.pc = "done"
    /\ ug' = Idle
    /\ UNCHANGED <<authVars, snaps, readVars, regVars, storeVars, avg, cg, dg, du, nextGradeId, deleted>>

\* ------------------------------------------------------------ delete_grade
delete_grade_begin(caller, grade_id) ==
    /\ dg.pc = "idle"
    /\ WorkerFree
    /\ caller \in DOMAIN users
    /\ dg' = IF ~ role_allowed(caller, {TEACHER, ADMIN})
             THEN Refused(caller)
             ELSE [pc |-> "delete_one", current_user |-> CurrentUser(caller),
                   grade_id |-> grade_id]
    /\ UNCHANGED <<authVars, snaps, readVars, regVars, storeVars, avg, cg, ug, du, nextGradeId, deleted>>

\* Lines 253-260.
delete_grade_delete_one ==
    /\ dg.pc = "delete_one"
    /\ LET kept(g) == g.id # dg.grade_id
       IN  grades' = SelectSeq(grades, kept)
    /\ dg' = IF GradeIndex(grades, dg.grade_id) # 0 THEN Done(200)
             ELSE Done(404)
    /\ snaps' = Recorded(grades')
    /\ UNCHANGED <<authVars, readVars, regVars, users, subjects, avg, cg, ug, du, nextGradeId, deleted>>

delete_grade_return ==
    /\ dg.pc = "done"
    /\ dg' = Idle
    /\ UNCHANGED <<authVars, snaps, readVars, regVars, storeVars, avg, cg, ug, du, nextGradeId, deleted>>

\* ------------------------------------------------------------- delete_user
delete_user_begin(caller, user_id) ==
    /\ du.pc = "idle"
    /\ WorkerFree
    /\ caller \in DOMAIN users
    /\ du' = IF ~ role_allowed(caller, {ADMIN})
             THEN Refused(caller)
             ELSE [pc |-> "delete_one", current_user |-> CurrentUser(caller),
                   user_id |-> user_id]
    /\ UNCHANGED <<authVars, snaps, readVars, regVars, storeVars, avg, cg, ug, dg, nextGradeId, deleted>>

\* api_routes.py lines 232-237.
delete_user_delete_one ==
    /\ du.pc = "delete_one"
    /\ users' = [u \in DOMAIN users \ {du.user_id} |-> users[u]]
    /\ du' = IF du.user_id \in DOMAIN users
             THEN [du EXCEPT !.pc = "delete_many"]
             ELSE Done(404)
    /\ UNCHANGED <<authVars, snaps, readVars, regVars, subjects, grades, avg, cg, ug, dg, nextGradeId, deleted>>

\* api_routes.py lines 240-243.
delete_user_delete_many ==
    /\ du.pc = "delete_many"
    /\ LET kept(g) == g.student_id # du.user_id
       IN  grades' = SelectSeq(grades, kept)
    /\ du' = Done(200)
    /\ deleted' = deleted \cup {du.user_id}
    /\ snaps' = Recorded(grades')
    /\ UNCHANGED <<authVars, readVars, regVars, users, subjects, avg, cg, ug, dg, nextGradeId>>

delete_user_return ==
    /\ du.pc = "done"
    /\ du' = Idle
    /\ UNCHANGED <<authVars, snaps, readVars, regVars, storeVars, avg, cg, ug, dg, nextGradeId, deleted>>

\* ------------------------------------------------------ get_student_grades
\* Variant: the identifiers are compared with == instead of !=.
grades_forbidden_own(caller, student_id) ==
    /\ users[caller].role = STUDENT
    /\ caller = student_id
    /\ users[caller].role \notin {TEACHER, ADMIN}

\* The permission test of lines 107-112.
grades_forbidden(caller, student_id) ==
    /\ users[caller].role = STUDENT
    /\ caller # student_id
    /\ users[caller].role \notin {TEACHER, ADMIN}

\* The response to the request req: a status and the list of grades.
GradesDone(req, status, result) ==
    [pc |-> "done", current_user |-> req.current_user,
     student_id |-> req.student_id, status |-> status, result |-> result]

\* Lines 131-142: one element of the response; the names of the student,
\* the subject and the teacher are not modelled, recorded_by is the
\* teacher's identifier when the teacher was found.
GradeResponse(grade, subject, teacher_name) ==
    [id                  |-> grade.id,
     value               |-> grade.value,
     date                |-> grade.date,
     comment             |-> grade.comment,
     student_id          |-> grade.student_id,
     subject_id          |-> grade.subject_id,
     subject_coefficient |-> IF subject # None THEN subject[1].coefficient
                             ELSE 10,
     recorded_by         |-> teacher_name]

get_student_grades_begin(caller, student_id) ==
    /\ gsg.pc = "idle"
    /\ WorkerFree
    /\ caller \in DOMAIN users
    /\ LET req == [pc |-> "find_grades", current_user |-> CurrentUser(caller),
                   student_id |-> student_id]
       IN  gsg' = IF grades_forbidden(caller, student_id)
                  THEN GradesDone(req, 403, <<>>)
                  ELSE req
    /\ UNCHANGED <<authVars, snaps, storeVars, avg, gradeReqVars, tp, transcripts,
                   nextTranscriptId, regVars>>

\* Line 115.
get_student_grades_find_grades ==
    /\ gsg.pc = "find_grades"
    /\ gsg' = [pc |-> "find_student", current_user |-> gsg.current_user,
               student_id |-> gsg.student_id,
               grades |-> SelectGrades(grades, gsg.student_id)]
    /\ UNCHANGED <<authVars, snaps, storeVars, avg, gradeReqVars, tp, transcripts,
                   nextTranscriptId, regVars>>

\* Lines 116-122, and the return of line 144 when there is no grade.
get_student_grades_find_student ==
    /\ gsg.pc = "find_student"
    /\ gsg' = IF gsg.student_id \notin DOMAIN users
              THEN GradesDone(gsg, 404, <<>>)
              ELSE IF gsg.grades = <<>>
              THEN GradesDone(gsg, 200, <<>>)
              ELSE [pc |-> "subject", current_user |-> gsg.current_user,
                    student_id |-> gsg.student_id, grades |-> gsg.grades,
                    i |-> 1, result |-> <<>>]
    /\ UNCHANGED <<authVars, snaps, storeVars, avg, gradeReqVars, tp, transcripts,
                   nextTranscriptId, regVars>>

\* Line 126: the subject of the grade of this iteration.
get_student_grades_subject ==
    /\ gsg.pc = "subject"
    /\ LET subject_id == gsg.grades[gsg.i].subject_id
       IN  gsg' = [pc |-> "teacher", current_user |-> gsg.current_user,
                   student_id |-> gsg.student_id, grades |-> gsg.grades,
                   i |-> gsg.i, result |-> gsg.result,
                   subject |-> IF subject_id \in DOMAIN subjects
                               THEN Some(subjects[subject_id]) ELSE None]
    /\ UNCHANGED <<authVars, snaps, storeVars, avg, gradeReqVars, tp, transcripts,
                   nextTranscriptId, regVars>>

\* Lines 127-142: the teacher of the grade, and the element appended.
get_student_grades_teacher ==
    /\ gsg.pc = "teacher"
    /\ LET grade == gsg.grades[gsg.i]
           teacher_name == IF grade.recorded_by_teacher_id \in DOMAIN users
                           THEN grade.recorded_by_teacher_id ELSE ""
           result == Append(gsg.result,
                            GradeResponse(grade, gsg.subject, teacher_name))
       IN  gsg' = IF gsg.i = Len(gsg.grades)
                  THEN GradesDone(gsg, 200, result)
                  ELSE [pc |-> "subject", current_user |-> gsg.current_user,
                        student_id |-> gsg.student_id, grades |-> gsg.grades,
                        i |-> gsg.i + 1, result |-> result]
    /\ UNCHANGED <<authVars, snaps, storeVars, avg, gradeReqVars, tp, transcripts,
                   nextTranscriptId, regVars>>

get_student_grades_return ==
    /\ gsg.pc = "done"
    /\ gsg' = Idle
    /\ UNCHANGED <<authVars, snaps, storeVars, avg, gradeReqVars, tp, transcripts,
                   nextTranscriptId, regVars>>

\* ------------------------------------------------- generate_transcript_pdf
GENERATED == "GENERATED"

\* Variant: the student is looked up before the permission test, so that
\* an identifier that is no user is answered not-found.
transcript_forbidden_existing(caller, student_id) ==
    /\ student_id \in DOMAIN users
    /\ users[caller].role = STUDENT
    /\ caller # student_id

\* The permission test of lines 358-363.
transcript_forbidden(caller, student_id) ==
    /\ users[caller].role = STUDENT
    /\ caller # student_id
    /\ users[caller].role \notin {TEACHER, ADMIN}

\* The response to the request req; rendered is the content of the PDF
\* (None when nothing was rendered) and transcript_id the record's id.
TranscriptDone(req, status, rendered, transcript_id) ==
    [pc |-> "done", current_user |-> req.current_user,
     student_id |-> req.student_id, semester |-> req.semester,
     status |-> status, rendered |-> rendered,
     transcript_id |-> transcript_id]

\* Lines 376-456: what the PDF shows, the student, the semester line and
\* the table of the averages.
render_pdf(student_id, semester, average_data) ==
    [student_id       |-> student_id,
     semester         |-> semester,
     subject_averages |-> average_data.subject_averages,
     general_average  |-> average_data.general_average]

\* Variant: the semester of the request is not recorded.
transcript_data_no_semester(transcript_id, student_id, semester) ==
    [id         |-> transcript_id,
     student_id |-> student_id,
     status     |-> GENERATED,
     semester   |-> None]

\* Lines 467-474: the transcript record; the generation date and the file
\* path, which is derived from the identifier, are not modelled.
transcript_data(transcript_id, student_id, semester) ==
    [id         |-> transcript_id,
     student_id |-> student_id,
     status     |-> GENERATED,
     semester   |-> semester]

generate_transcript_pdf_begin(caller, student_id, semester) ==
    /\ tp.pc = "idle"
    /\ WorkerFree
    /\ caller \in DOMAIN users
    /\ nextTranscriptId <= MaxTranscripts
    /\ LET req == [pc |-> "find_student",
                   current_user |-> CurrentUser(caller),
                   student_id |-> student_id, semester |-> semester]
       IN  tp' = IF transcript_forbidden(caller, student_id)
                 THEN TranscriptDone(req, 403, None, None)
                 ELSE req
    /\ UNCHANGED <<authVars, snaps, storeVars, avg, gradeReqVars, gsg, transcripts,
                   nextTranscriptId, regVars>>

\* Lines 366-371.
generate_transcript_pdf_find_student ==
    /\ tp.pc = "find_student"
    /\ tp' = IF tp.student_id \in DOMAIN users
             THEN [tp EXCEPT !.pc = "fetch"]
             ELSE TranscriptDone(tp, 404, None, None)
    /\ UNCHANGED <<authVars, snaps, storeVars, avg, gradeReqVars, gsg, transcripts,
                   nextTranscriptId, regVars>>

\* Line 374 entering calculate_student_average: its permission test gives
\* the answer of lines 358-363 again, then line 285 and lines 287-294.
generate_transcript_pdf_fetch ==
    /\ tp.pc = "fetch"
    /\ LET fetched == SelectGrades(grades, tp.student_id)
       IN  tp' = IF fetched = <<>>
                 THEN [pc |-> "insert", current_user |-> tp.current_user,
                       student_id |-> tp.student_id,
                       semester |-> tp.semester,
                       average_data |->
                          empty_report(tp.student_id, tp.semester)]
                 ELSE [pc |-> "group", current_user |-> tp.current_user,
                       student_id |-> tp.student_id,
                       semester |-> tp.semester,
                       grades |-> fetched, i |-> 1, subjects_data |-> <<>>]
    /\ UNCHANGED <<authVars, snaps, storeVars, avg, gradeReqVars, gsg, transcripts,
                   nextTranscriptId, regVars>>

\* Line 374 in calculate_student_average: one iteration of the loop of
\* lines 298-310; the last one is followed by lines 312-341.
generate_transcript_pdf_group ==
    /\ tp.pc = "group"
    /\ LET sd == group_grade(tp.subjects_data, tp.grades[tp.i], subjects)
       IN  tp' = IF tp.i = Len(tp.grades)
                 THEN [pc |-> "insert", current_user |-> tp.current_user,
                       student_id |-> tp.student_id,
                       semester |-> tp.semester,
                       average_data |->
                          build_report(tp.student_id, sd, tp.semester)]
                 ELSE [tp EXCEPT !.i = @ + 1, !.subjects_data = sd]
    /\ UNCHANGED <<authVars, snaps, storeVars, avg, gradeReqVars, gsg, transcripts,
                   nextTranscriptId, regVars>>

\* Lines 376-484: the PDF is built, the transcript record inserted.
generate_transcript_pdf_insert ==
    /\ tp.pc = "insert"
    /\ transcripts' = Append(transcripts,
                             transcript_data(nextTranscriptId, tp.student_id,
                                             tp.semester))
    /\ nextTranscriptId' = nextTranscriptId + 1
    /\ tp' = TranscriptDone(tp, 200,
                            Some(render_pdf(tp.student_id, tp.semester,
                                            tp.average_data)),
                            Some(nextTranscriptId))
    /\ UNCHANGED <<authVars, snaps, storeVars, avg, gradeReqVars, gsg, regVars>>

generate_transcript_pdf_return ==
    /\ tp.pc = "done"
    /\ tp' = Idle
    /\ UNCHANGED <<authVars, snaps, storeVars, avg, gradeReqVars, gsg, transcripts,
                   nextTranscriptId, regVars>>

\* --------------------------------------------------------------- passwords
\* pwd_context.hash: the bcrypt digest of the password.
get_password_hash(password) == <<"bcrypt", password>>

\* pwd_context.verify: the digest is the one of that password.
verify_password(plain_password, hashed_password) ==
    hashed_password = get_password_hash(plain_password)

\* -------------------------------------------------------- register_student
\* The identifiers uuid4 gives to the accounts registered, in order.
FreshUserIds == <<"r1", "r2", "r3", "r4">>

\* db.users.find_one({field: value}): some user document has that value in
\* that field.
UserWith(field, value) ==
    \E u \in DOMAIN users :
        field \in DOMAIN users[u] /\ users[u][field] = value

\* Lines 67-78: the document of the new student; names and created_at are
\* not modelled.
student_data(student_request) ==
    [role           |-> STUDENT,
     username       |-> student_request.username,
     password       |-> get_password_hash(student_request.password),
     email          |-> student_request.email,
     student_id_num |-> student_request.student_id_num]

register_student_begin(w, caller, student_request) ==
    /\ rs[w].pc = "idle"
    /\ WorkerFree
    /\ caller \in DOMAIN users
    /\ nextUserId <= MaxRegistrations
    /\ rs' = [rs EXCEPT ![w] =
                IF ~ role_allowed(caller, {ADMIN})
                THEN Refused(caller)
                ELSE [pc |-> "find_username",
                      current_user |-> CurrentUser(caller),
                      student_request |-> student_request]]
    /\ UNCHANGED <<authVars, snaps, storeVars, avg, gradeReqVars, readVars, rt, nextUserId>>

\* Lines 48-52.
register_student_find_username(w) ==
    /\ rs[w].pc = "find_username"
    /\ rs' = [rs EXCEPT ![w] =
                IF UserWith("username", rs[w].student_request.username)
                THEN Done(400)
                ELSE [@ EXCEPT !.pc = "find_email"]]
    /\ UNCHANGED <<authVars, snaps, storeVars, avg, gradeReqVars, readVars, rt, nextUserId>>

\* Lines 54-58.
register_student_find_email(w) ==
    /\ rs[w].pc = "find_email"
    /\ rs' = [rs EXCEPT ![w] =
                IF UserWith("email", rs[w].student_request.email)
                THEN Done(400)
                ELSE [@ EXCEPT !.pc = "find_student_id_num"]]
    /\ UNCHANGED <<authVars, snaps, storeVars, avg, gradeReqVars, readVars, rt, nextUserId>>

\* Lines 60-64.
register_student_find_student_id_num(w) ==
    /\ rs[w].pc = "find_student_id_num"
    /\ rs' = [rs EXCEPT ![w] =
                IF UserWith("student_id_num",
                            rs[w].student_request.student_id_num)
                THEN Done(400)
                ELSE [@ EXCEPT !.pc = "insert"]]
    /\ UNCHANGED <<authVars, snaps, storeVars, avg, gradeReqVars, readVars, rt, nextUserId>>

\* Lines 66-92.
register_student_insert(w) ==
    /\ rs[w].pc = "insert"
    /\ users' = users @@ (FreshUserIds[nextUserId]
                            :> student_data(rs[w].student_request))
    /\ nextUserId' = nextUserId + 1
    /\ rs' = [rs EXCEPT ![w] = Done(200)]
    /\ UNCHANGED <<authVars, snaps, subjects, grades, avg, gradeReqVars, readVars, rt>>

register_student_return(w) ==
    /\ rs[w].pc = "done"
    /\ rs' = [rs EXCEPT ![w] = Idle]
    /\ UNCHANGED <<authVars, snaps, storeVars, avg, gradeReqVars, readVars, rt, nextUserId>>

\* -------------------------------------------------------- register_teacher
\* Lines 123-134: the document of the new teacher.
teacher_data(teacher_request) ==
    [role           |-> TEACHER,
     username       |-> teacher_request.username,
     password       |-> get_password_hash(teacher_request.password),
     email          |-> teacher_request.email,
     teacher_id_num |-> teacher_request.teacher_id_num]

register_teacher_begin(caller, teacher_request) ==
    /\ rt.pc = "idle"
    /\ WorkerFree
    /\ caller \in DOMAIN users
    /\ nextUserId <= MaxRegistrations
    /\ rt' = IF ~ role_allowed(caller, {ADMIN})
             THEN Refused(caller)
             ELSE [pc |-> "find_username",
                   current_user |-> CurrentUser(caller),
                   teacher_request |-> teacher_request]
    /\ UNCHANGED <<authVars, snaps, storeVars, avg, gradeReqVars, readVars, rs, nextUserId>>

\* Lines 104-108.
register_teacher_find_username ==
    /\ rt.pc = "find_username"
    /\ rt' = IF UserWith("username", rt.teacher_request.username)
             THEN Done(400)
             ELSE [rt EXCEPT !.pc = "find_email"]
    /\ UNCHANGED <<authVars, snaps, storeVars, avg, gradeReqVars, readVars, rs, nextUserId>>

\* Lines 110-114.
register_teacher_find_email ==
    /\ rt.pc = "find_email"
    /\ rt' = IF UserWith("email", rt.teacher_request.email)
             THEN Done(400)
             ELSE [rt EXCEPT !.pc = "find_teacher_id_num"]
    /\ UNCHANGED <<authVars, snaps, storeVars, avg, gradeReqVars, readVars, rs, nextUserId>>

\* Lines 116-120.
register_teacher_find_teacher_id_num ==
    /\ rt.pc = "find_teacher_id_num"
    /\ rt' = IF UserWith("teacher_id_num", rt.teacher_request.teacher_id_num)
             THEN Done(400)
             ELSE [rt EXCEPT !.pc = "insert"]
    /\ UNCHANGED <<authVars, snaps, storeVars, avg, gradeReqVars, readVars, rs, nextUserId>>

\* Lines 122-148.
register_teacher_insert ==
    /\ rt.pc = "insert"
    /\ users' = users @@ (FreshUserIds[nextUserId]
                            :> teacher_data(rt.teacher_request))
    /\ nextUserId' = nextUserId + 1
    /\ rt' = Done(200)
    /\ UNCHANGED <<authVars, snaps, subjects, grades, avg, gradeReqVars, readVars, rs>>

register_teacher_return ==
    /\ rt.pc = "done"
    /\ rt' = Idle
    /\ UNCHANGED <<authVars, snaps, storeVars, avg, gradeReqVars, readVars, rs, nextUserId>>

\* ---------------------------------------------------------- authentication
\* server.py line 35, in minutes.
ACCESS_TOKEN_EXPIRE_MINUTES == 1440

\* The natural order of db.users: the default admin, then the registered
\* accounts in the order of their insertion.
UserOrder == <<AdminId>> \o FreshUserIds

\* db.users.find_one({"username": username}): the _id of the first user
\* document of that username in natural order, None without one.
find_one_username(username) ==
    LET found == {k \in DOMAIN UserOrder :
                    /\ UserOrder[k] \in DOMAIN users
                    /\ "username" \in DOMAIN users[UserOrder[k]]
                    /\ users[UserOrder[k]].username = username}
    IN  IF found = {} THEN None
        ELSE Some(UserOrder[CHOOSE k \in found : \A j \in found : k <= j])

\* server.py lines 218-228 as login calls them (lines 280-283): the payload
\* of the signed token, the username and the expiry.
create_access_token(user_id, now) ==
    [sub |-> users[user_id].username,
     exp |-> now + ACCESS_TOKEN_EXPIRE_MINUTES]

\* server.py lines 265-295: one store operation, then the response. The
\* history records the token with the _id of the LoginResponse.
login(login_request, now) ==
    /\ WorkerFree
    /\ now >= clock
    /\ clock' = now
    /\ LET user == find_one_username(login_request.username)
       IN  tokens' =
             IF \/ user = None
                \/ ~ verify_password(login_request.password,
                                     users[user[1]].password)
             THEN tokens
             ELSE tokens \cup {[token |-> create_access_token(user[1], now),
                                issued_to |-> user[1]]}
    /\ UNCHANGED <<snaps, storeVars, avg, gradeReqVars, readVars, regVars, au>>

\* server.py lines 230-248: the user document the token resolves to, None
\* when the token is expired or no user has its username.
get_current_user(token, now) ==
    IF token.exp < now THEN None
    ELSE find_one_username(token.sub)

\* server.py lines 297-308, GET /api/auth/me with a token login has issued.
get_current_user_info(issued, now) ==
    /\ au.pc = "idle"
    /\ WorkerFree
    /\ now >= clock
    /\ clock' = now
    /\ LET current_user == get_current_user(issued.token, now)
       IN  au' = IF current_user = None
                 THEN [pc |-> "done", status |-> 401, issued |-> issued]
                 ELSE [pc |-> "done", status |-> 200, issued |-> issued,
                       id |-> current_user[1],
                       role |-> users[current_user[1]].role]
    /\ UNCHANGED <<snaps, storeVars, avg, gradeReqVars, readVars, regVars, tokens>>

get_current_user_info_return ==
    /\ au.pc = "done"
    /\ au' = Idle
    /\ UNCHANGED <<snaps, storeVars, avg, gradeReqVars, readVars, regVars, tokens,
                   clock>>

\* ---------------------------------------------------------- delete subject
\* Removal of a subject document from the store (spec 3 and 7: a subject
\* may be deleted after grades point to it); no handler of src/ does it.
delete_subject(subject_id) ==
    /\ subject_id \in DOMAIN subjects
    /\ subjects' = [sub \in DOMAIN subjects \ {subject_id} |-> subjects[sub]]
    /\ UNCHANGED <<authVars, snaps, readVars, regVars, users, grades, avg, gradeReqVars>>

\* --------------------------------------------------- averaging runs
SubjectA == "A"
SubjectB == "B"
Coefficients == {10, 20}

\* Documents the store of an averaging run is filled with: grades of
\* student s1 in both subjects, and grades of student s2.
AvgGradeDocs ==
    [student_id : {"s1"}, subject_id : {SubjectA}, value : {10, 14}]
    \cup [student_id : {"s1"}, subject_id : {SubjectB}, value : {14, 16}]
    \cup [student_id : {"s2"}, subject_id : {SubjectA}, value : {MaxValue}]

AvgStores ==
    UNION {[1..n -> AvgGradeDocs] : n \in 0..MaxGrades}

WithIds(docs) ==
    [k \in 1..Len(docs) |->
        [id |-> k, student_id |-> docs[k].student_id,
         subject_id |-> docs[k].subject_id, value |-> docs[k].value,
         comment |-> None, recorded_by_teacher_id |-> AdminId, date |-> k]]

AvgSubjectStores == [{SubjectA, SubjectB} -> [coefficient : Coefficients]]

\* The semester query parameter: absent, or a label.
Semesters == {None, Some("S1")}

InitAvg ==
    /\ users = (AdminId :> [role |-> ADMIN]) @@ ("s1" :> [role |-> STUDENT])
                 @@ ("s2" :> [role |-> STUDENT])
    /\ subjects \in AvgSubjectStores
    /\ \E docs \in AvgStores : grades = WithIds(docs)
    /\ avg = AvgIdle
    /\ cg = Idle /\ ug = Idle /\ dg = Idle /\ du = Idle
    /\ nextGradeId = Len(grades) + 1
    /\ deleted = {}
    /\ NoReadRequests
    /\ NoRegistrations
    /\ NoAuth
    /\ snaps = {}

\* Requests are served one at a time; subjects are deleted between them.
NextAvg ==
    \/ \E subject_id \in {SubjectA, SubjectB} :
          avg.pc = "idle" /\ delete_subject(subject_id)
    \/ \E caller \in {AdminId, "s1"}, student_id \in {"s1", "s3"},
          semester \in Semesters :
          calculate_student_average_begin(caller, student_id, semester)
    \/ calculate_student_average_fetch
    \/ calculate_student_average_group
    \/ calculate_student_average_return

vars == <<users, subjects, grades, avg, cg, ug, dg, du, nextGradeId, deleted,
          gsg, tp, transcripts, nextTranscriptId, rs, rt, nextUserId,
          tokens, au, clock, snaps>>

SpecAvg == InitAvg /\ [][NextAvg]_vars

\* --------------------------------------------------- store handler runs
StudentIds == {"s1", "s2"}
TeacherId == "t1"
\* The accounts delete_user is asked to delete; s2 is kept.
DeletedIds == {"s1"}
\* Values of the create_grade requests and of the update_grade requests:
\* out of range on either side, and in range.
CreateValues == {-1, 20, 21}
UpdateValues == {Some(-1), Some(0), Some(21)}
\* The bodies of the create_grade requests, without a comment and without
\* a recording teacher: every value for s1 in the existing subject, and the
\* largest value for s1 in a missing subject and for s2.
GradeRequests ==
    [student_id : {"s1"}, subject_id : {SubjectA},
     value : CreateValues, comment : {None},
     recorded_by_teacher_id : {None}]
    \cup [student_id : {"s1"}, subject_id : {SubjectB},
          value : {MaxValue}, comment : {None},
          recorded_by_teacher_id : {None}]
    \cup [student_id : StudentIds \ {"s1"}, subject_id : {SubjectA},
          value : {MaxValue}, comment : {None},
          recorded_by_teacher_id : {None}]
\* The callers of the grade handlers: a teacher and a student.
GradeCallers == {TeacherId, "s1"}
\* datetime.utcnow() of these runs.
StoreTimes == {1}

Init ==
    /\ users = (AdminId :> [role |-> ADMIN]) @@ ("s1" :> [role |-> STUDENT])
                 @@ ("s2" :> [role |-> STUDENT]) @@ (TeacherId :> [role |-> TEACHER])
    /\ subjects = (SubjectA :> [coefficient |-> 10])
    /\ grades = <<>>
    /\ avg = AvgIdle
    /\ cg = Idle /\ ug = Idle /\ dg = Idle /\ du = Idle
    /\ nextGradeId = 1
    /\ deleted = {}
    /\ NoReadRequests
    /\ NoRegistrations
    /\ NoAuth
    /\ snaps = {}

Next ==
    \/ \E caller \in GradeCallers, grade_request \in GradeRequests :
          create_grade_begin(caller, grade_request)
    \/ create_grade_find_student
    \/ create_grade_find_subject
    \/ \E now \in StoreTimes : create_grade_insert(now)
    \/ create_grade_return
    \/ \E caller \in GradeCallers, grade_id \in 1..MaxStoreGrades,
          value \in UpdateValues :
          update_grade_begin(caller, grade_id, value, None)
    \/ update_grade_find
    \/ \E now \in StoreTimes : update_grade_update_one(now)
    \/ update_grade_refetch
    \/ update_grade_return
    \/ \E caller \in GradeCallers, grade_id \in 1..MaxStoreGrades :
          delete_grade_begin(caller, grade_id)
    \/ delete_grade_delete_one
    \/ delete_grade_return
    \/ \E caller \in {AdminId, TeacherId}, user_id \in DeletedIds :
          delete_user_begin(caller, user_id)
    \/ delete_user_delete_one
    \/ delete_user_delete_many
    \/ delete_user_return

Spec == Init /\ [][Next]_vars

\* ------------------------------------------------------------ reader runs
\* The student identifiers the readers are asked for: two students, a
\* teacher's account and an identifier that is no user.
ReadTargets == {"s1", "s2", TeacherId, "s3"}

InitRead ==
    /\ users = (AdminId :> [role |-> ADMIN]) @@ ("s1" :> [role |-> STUDENT])
                 @@ ("s2" :> [role |-> STUDENT]) @@ (TeacherId :> [role |-> TEACHER])
    /\ subjects = (SubjectA :> [coefficient |-> 10])
                    @@ (SubjectB :> [coefficient |-> 20])
    /\ grades = WithIds(<<[student_id |-> "s1", subject_id |-> SubjectB, value |-> 16],
                          [student_id |-> "s2", subject_id |-> SubjectA, value |-> 20],
                          [student_id |-> "s1", subject_id |-> SubjectA, value |-> 10]>>)
    /\ avg = AvgIdle
    /\ cg = Idle /\ ug = Idle /\ dg = Idle /\ du = Idle
    /\ nextGradeId = Len(grades) + 1
    /\ deleted = {}
    /\ NoReadRequests
    /\ NoRegistrations
    /\ NoAuth
    /\ snaps = {}

\* No reader is in flight.
Quiet == avg.pc = "idle" /\ gsg.pc = "idle" /\ tp.pc = "idle"

\* The readers write neither users, subjects nor grades, so their steps
\* commute; the requests are served one at a time.
NextRead ==
    \/ \E caller \in {AdminId, TeacherId, "s1"}, student_id \in ReadTargets :
          Quiet /\ get_student_grades_begin(caller, student_id)
    \/ get_student_grades_find_grades
    \/ get_student_grades_find_student
    \/ get_student_grades_subject
    \/ get_student_grades_teacher
    \/ get_student_grades_return
    \/ \E caller \in {AdminId, TeacherId, "s1"}, student_id \in ReadTargets,
          semester \in Semesters :
          Quiet /\ calculate_student_average_begin(caller, student_id, semester)
    \/ calculate_student_average_fetch
    \/ calculate_student_average_group
    \/ calculate_student_average_return
    \/ \E caller \in {AdminId, TeacherId, "s1"}, student_id \in ReadTargets,
          semester \in Semesters :
          Quiet /\ generate_transcript_pdf_begin(caller, student_id, semester)
    \/ generate_transcript_pdf_find_student
    \/ generate_transcript_pdf_fetch
    \/ generate_transcript_pdf_group
    \/ generate_transcript_pdf_insert
    \/ generate_transcript_pdf_return

SpecRead == InitRead /\ [][NextRead]_vars

\* ------------------------------------------------------------ update runs
\* The bodies of the update_grade requests: with and without a value, with
\* and without a comment.
EditValues == {None, Some(15)}
EditComments == {None, Some("c1")}
\* datetime.utcnow() of the updates, after the dates of the stored grades.
EditTimes == {2, 3}

\* Two grades of student s1 recorded by different accounts, one with a
\* comment.
InitUpdate ==
    /\ users = (AdminId :> [role |-> ADMIN]) @@ ("s1" :> [role |-> STUDENT])
                 @@ (TeacherId :> [role |-> TEACHER])
    /\ subjects = (SubjectA :> [coefficient |-> 10])
    /\ grades = <<[id |-> 1, student_id |-> "s1", subject_id |-> SubjectA,
                   value |-> 12, comment |-> Some("c0"),
                   recorded_by_teacher_id |-> TeacherId, date |-> 1],
                  [id |-> 2, student_id |-> "s1", subject_id |-> SubjectA,
                   value |-> 8, comment |-> None,
                   recorded_by_teacher_id |-> AdminId, date |-> 1]>>
    /\ avg = AvgIdle
    /\ cg = Idle /\ ug = Idle /\ dg = Idle /\ du = Idle
    /\ nextGradeId = Len(grades) + 1
    /\ deleted = {}
    /\ NoReadRequests
    /\ NoRegistrations
    /\ NoAuth
    /\ snaps = {}

NextUpdate ==
    \/ \E caller \in {AdminId, TeacherId}, grade_id \in 1..3,
          value \in EditValues, comment \in EditComments :
          update_grade_begin(caller, grade_id, value, comment)
    \/ update_grade_find
    \/ \E now \in EditTimes : update_grade_update_one(now)
    \/ update_grade_refetch
    \/ update_grade_return
    \/ \E grade_id \in 1..2 : delete_grade_begin(TeacherId, grade_id)
    \/ delete_grade_delete_one
    \/ delete_grade_return

SpecUpdate == InitUpdate /\ [][NextUpdate]_vars

\* ------------------------------------------------------ registration runs
\* The bodies of the register_student requests: two accounts with the same
\* student number, and the body of the register_teacher requests.
StudentRequests ==
    {[username |-> "u1", password |-> "p1", email |-> "e1",
      student_id_num |-> "n1"],
     [username |-> "u2", password |-> "p1", email |-> "e2",
      student_id_num |-> "n1"]}
TeacherRequests ==
    {[username |-> "u1", password |-> "p2", email |-> "e3",
      teacher_id_num |-> "n1"]}

InitReg ==
    /\ users = (AdminId :> [role |-> ADMIN, username |-> "admin",
                            password |-> get_password_hash("adminpass"),
                            email |-> "admin@example.com"])
    /\ subjects = (SubjectA :> [coefficient |-> 10])
    /\ grades = <<>>
    /\ avg = AvgIdle
    /\ cg = Idle /\ ug = Idle /\ dg = Idle /\ du = Idle
    /\ nextGradeId = 1
    /\ deleted = {}
    /\ NoReadRequests
    /\ NoRegistrations
    /\ NoAuth
    /\ snaps = {}

NextReg ==
    \/ \E w \in 1..MaxWorkers, student_request \in StudentRequests :
          register_student_begin(w, AdminId, student_request)
    \/ \E w \in 1..MaxWorkers : register_student_find_username(w)
    \/ \E w \in 1..MaxWorkers : register_student_find_email(w)
    \/ \E w \in 1..MaxWorkers : register_student_find_student_id_num(w)
    \/ \E w \in 1..MaxWorkers : register_student_insert(w)
    \/ \E w \in 1..MaxWorkers : register_student_return(w)
    \/ \E teacher_request \in TeacherRequests :
          register_teacher_begin(AdminId, teacher_request)
    \/ register_teacher_find_username
    \/ register_teacher_find_email
    \/ register_teacher_find_teacher_id_num
    \/ register_teacher_insert
    \/ register_teacher_return
    \/ \E user_id \in {FreshUserIds[1]} : delete_user_begin(AdminId, user_id)
    \/ delete_user_delete_one
    \/ delete_user_delete_many
    \/ delete_user_return

SpecReg == InitReg /\ [][NextReg]_vars

\* ---------------------------------------------------- authentication runs
\* The bodies of the login requests: the username of the registered
\* accounts with the password of the student and with the one of the
\* teacher.
LoginRequests ==
    {[username |-> "u1", password |-> "p1"],
     [username |-> "u1", password |-> "p2"]}
\* datetime.utcnow() of the authentication steps: at the start, within the
\* life of a token and after the expiry of the first tokens.
AuthTimes == {0, 1, ACCESS_TOKEN_EXPIRE_MINUTES + 1}

NextAuth ==
    \/ \E student_request \in {r \in StudentRequests : r.username = "u1"} :
          register_student_begin(1, AdminId, student_request)
    \/ register_student_find_username(1)
    \/ register_student_find_email(1)
    \/ register_student_find_student_id_num(1)
    \/ register_student_insert(1)
    \/ register_student_return(1)
    \/ \E teacher_request \in TeacherRequests :
          register_teacher_begin(AdminId, teacher_request)
    \/ register_teacher_find_username
    \/ register_teacher_find_email
    \/ register_teacher_find_teacher_id_num
    \/ register_teacher_insert
    \/ register_teacher_return
    \/ \E user_id \in {FreshUserIds[1]} : delete_user_begin(AdminId, user_id)
    \/ delete_user_delete_one
    \/ delete_user_delete_many
    \/ delete_user_return
    \/ \E login_request \in LoginRequests, now \in AuthTimes :
          login(login_request, now)
    \/ \E issued \in tokens, now \in AuthTimes :
          get_current_user_info(issued, now)
    \/ get_current_user_info_return

SpecAuth == InitReg /\ [][NextAuth]_vars

\* ------------------------------------------- averaging among grade writers
\* The student whose average is asked for while its grades are written.
SnapStudent == "s1"
\* The body of the create_grade requests of these runs.
SnapGradeRequests ==
    [student_id : {SnapStudent}, subject_id : {SubjectB},
     value : {MaxValue}, comment : {None}, recorded_by_teacher_id : {None}]
\* The value of the update_grade requests of these runs; they name the
\* first two grades, the delete_grade requests the first one.
SnapValues == {Some(MinValue)}

\* No writer of db.grades is in flight: in these runs the writers follow
\* one another, each of them among the steps of the average.
NoWriter == cg = Idle /\ ug = Idle /\ dg = Idle /\ du = Idle

InitSnap ==
    /\ users = (AdminId :> [role |-> ADMIN])
                 @@ (SnapStudent :> [role |-> STUDENT])
                 @@ (TeacherId :> [role |-> TEACHER])
    /\ subjects = (SubjectA :> [coefficient |-> 10])
                    @@ (SubjectB :> [coefficient |-> 20])
    /\ grades = WithIds(<<[student_id |-> SnapStudent,
                           subject_id |-> SubjectA, value |-> 10]>>)
    /\ avg = AvgIdle
    /\ cg = Idle /\ ug = Idle /\ dg = Idle /\ du = Idle
    /\ nextGradeId = Len(grades) + 1
    /\ deleted = {}
    /\ NoReadRequests
    /\ NoRegistrations
    /\ NoAuth
    /\ snaps = {}

NextSnap ==
    \/ \E semester \in {None} :
          calculate_student_average_begin(AdminId, SnapStudent, semester)
    \/ calculate_student_average_fetch
    \/ calculate_student_average_group
    \/ calculate_student_average_return
    \/ \E grade_request \in SnapGradeRequests :
          NoWriter /\ create_grade_begin(TeacherId, grade_request)
    \/ create_grade_find_student
    \/ create_grade_find_subject
    \/ \E now \in StoreTimes : create_grade_insert(now)
    \/ create_grade_return
    \/ \E grade_id \in {1, 2}, value \in SnapValues :
          NoWriter /\ update_grade_begin(TeacherId, grade_id, value, None)
    \/ update_grade_find
    \/ \E now \in StoreTimes : update_grade_update_one(now)
    \/ update_grade_refetch
    \/ update_grade_return
    \/ \E grade_id \in {1} :
          NoWriter /\ delete_grade_begin(TeacherId, grade_id)
    \/ delete_grade_delete_one
    \/ delete_grade_return
    \/ \E user_id \in {SnapStudent} :
          NoWriter /\ delete_user_begin(AdminId, user_id)
    \/ delete_user_delete_one
    \/ delete_user_delete_many
    \/ delete_user_return

SpecSnap == InitSnap /\ [][NextSnap]_vars

\* ------------------------------------------- averaging runs at the bounds
\* Field(1.0, ge=0.1, le=10.0) of SubjectCreate.coefficient, in tenths.
MinCoefficient == 1
MaxCoefficient == 100

\* Documents the store of these runs is filled with: grades of student s1
\* in both subjects, at either end of the range of values.
RangeGradeDocs ==
    [student_id : {"s1"}, subject_id : {SubjectA, SubjectB},
     value : {MinValue, MaxValue}]

RangeStores ==
    UNION {[1..n -> RangeGradeDocs] : n \in 0..MaxGrades}

RangeSubjectStores ==
    [{SubjectA, SubjectB} -> [coefficient : {MinCoefficient, MaxCoefficient}]]

InitRange ==
    /\ users = (AdminId :> [role |-> ADMIN]) @@ ("s1" :> [role |-> STUDENT])
    /\ subjects \in RangeSubjectStores
    /\ \E docs \in RangeStores : grades = WithIds(docs)
    /\ avg = AvgIdle
    /\ cg = Idle /\ ug = Idle /\ dg = Idle /\ du = Idle
    /\ nextGradeId = Len(grades) + 1
    /\ deleted = {}
    /\ NoReadRequests
    /\ NoRegistrations
    /\ NoAuth
    /\ snaps = {}

NextRange ==
    \/ \E subject_id \in {SubjectA, SubjectB} :
          avg.pc = "idle" /\ delete_subject(subject_id)
    \/ \E semester \in {None} :
          calculate_student_average_begin(AdminId, "s1", semester)
    \/ calculate_student_average_fetch
    \/ calculate_student_average_group
    \/ calculate_student_average_return

SpecRange == InitRange /\ [][NextRange]_vars

\* ================================================= claims on the average
\* The claims are stated on the store itself, with sets, independently of
\* the loops of the handler.
RECURSIVE FnSum(_)
\* Sum of the values of the function f.
FnSum(f) ==
    IF DOMAIN f = {} THEN 0
    ELSE LET x == CHOOSE y \in DOMAIN f : TRUE
         IN  f[x] + FnSum([y \in DOMAIN f \ {x} |-> f[y]])

RECURSIVE FnProd(_)
\* Product of the values of the function f.
FnProd(f) ==
    IF DOMAIN f = {} THEN 1
    ELSE LET x == CHOOSE y \in DOMAIN f : TRUE
         IN  f[x] * FnProd([y \in DOMAIN f \ {x} |-> f[y]])

Abs(x) == IF x < 0 THEN 0 - x ELSE x

\* h hundredths is n/d rounded to 2 decimal places (a nearest hundredth).
IsRounded2(h, n, d) == 2 * Abs(100 * n - h * d) <= d

GradesOf(student_id) ==
    {k \in 1..Len(grades) : grades[k].student_id = student_id}
GradesIn(student_id, subject_id) ==
    {k \in GradesOf(student_id) : grades[k].subject_id = subject_id}
GradedSubjects(student_id) ==
    {grades[k].subject_id : k \in GradesOf(student_id)}
LiveSubjects(student_id) == GradedSubjects(student_id) \cap DOMAIN subjects
SubjectTotal(student_id, subject_id) ==
    FnSum([k \in GradesIn(student_id, subject_id) |-> grades[k].value])
SubjectCount(student_id, subject_id) ==
    Cardinality(GradesIn(student_id, subject_id))

\* Sum over the subjects S of (mean of the subject x coefficient) divided by
\* the sum of the coefficients, as the fraction WeightedNum / WeightedDen.
WeightedNum(student_id, S) ==
    LET count == [sub \in S |-> SubjectCount(student_id, sub)]
    IN  FnSum([sub \in S |->
                SubjectTotal(student_id, sub) * subjects[sub].coefficient
                    * (FnProd(count) \div count[sub])])
WeightedDen(student_id, S) ==
    FnProd([sub \in S |-> SubjectCount(student_id, sub)])
        * FnSum([sub \in S |-> subjects[sub].coefficient])

Answered == avg.pc = "done" /\ avg.report.status = 200
Entries == avg.report.subject_averages
EntryCoefficients == FnSum([k \in DOMAIN Entries |-> Entries[k].coefficient])
EntryCounts == FnSum([k \in DOMAIN Entries |-> Entries[k].grade_count])
EntryWeighted ==
    FnSum([k \in DOMAIN Entries |-> Entries[k].average * Entries[k].coefficient])

\* C1: for a student whose grades all reference existing subjects, the
\* general_average is (sum over the graded subjects of mean x coefficient)
\* divided by (sum of their coefficients), rounded to 2 decimal places;
\* grades {A (coeff 2): 10, 14; B (coeff 1): 16} give 13.33.
C1_GeneralAverage ==
    (/\ Answered
     /\ GradedSubjects(avg.student_id) # {}
     /\ GradedSubjects(avg.student_id) \subseteq DOMAIN subjects)
    => /\ IsRounded2(avg.report.general_average,
                     WeightedNum(avg.student_id, GradedSubjects(avg.student_id)),
                     WeightedDen(avg.student_id, GradedSubjects(avg.student_id)))
       /\ (/\ subjects = (SubjectA :> [coefficient |-> 20])
                            @@ (SubjectB :> [coefficient |-> 10])
           /\ \A sub \in {SubjectA, SubjectB} :
                {grades[k].value : k \in GradesIn(avg.student_id, sub)}
                    = IF sub = SubjectA THEN {10, 14} ELSE {16}
           /\ SubjectCount(avg.student_id, SubjectA) = 2
           /\ SubjectCount(avg.student_id, SubjectB) = 1)
          => avg.report.general_average = 1333

C1_Witness ==
    /\ Answered
    /\ avg.student_id = "s1"
    /\ subjects = (SubjectA :> [coefficient |-> 20])
                    @@ (SubjectB :> [coefficient |-> 10])
    /\ Len(grades) = 3
    /\ grades[1].subject_id = SubjectA /\ grades[1].value = 10
    /\ grades[2].subject_id = SubjectA /\ grades[2].value = 14
    /\ grades[3].subject_id = SubjectB /\ grades[3].value = 16
    /\ GradesOf("s1") = {1, 2, 3}
    /\ avg.report.general_average = 1333

\* C2 as stated: the general_average is the coefficient-weighted mean of the
\* `average` values reported in subject_averages, rounded to 2 decimal places.
C2_MeanOfReportedAverages ==
    (Answered /\ Entries # <<>>)
    => IsRounded2(avg.report.general_average,
                  EntryWeighted,
                  100 * EntryCoefficients)

\* C2 amended: the general_average is within 0.01 of the coefficient-weighted
\* mean of the reported (rounded) subject averages.
C2_WithinOneHundredth ==
    (Answered /\ Entries # <<>>)
    => Abs(avg.report.general_average * EntryCoefficients
            - EntryWeighted)
         <= EntryCoefficients

\* A report whose general_average is not the rounded weighted mean of the
\* reported averages: one subject with three grades, another with one.
C2_Witness ==
    /\ Answered
    /\ Len(Entries) = 2
    /\ \E k \in DOMAIN Entries : Entries[k].grade_count = 3
    /\ ~ IsRounded2(avg.report.general_average,
                    EntryWeighted,
                    100 * EntryCoefficients)

\* C3: for a student identifier without grades in the store, also one that
\* is no user at all, an admitted request returns general_average = 0, an
\* empty subject_averages and total_coefficient = 0, not a not-found.
C3_NoGrades ==
    (/\ avg.pc = "done"
     /\ avg.report.status # 403
     /\ GradesOf(avg.student_id) = {})
    => /\ avg.report.status = 200
       /\ avg.report.general_average = 0
       /\ avg.report.subject_averages = <<>>
       /\ avg.report.total_coefficient = 0

C3_Witness ==
    /\ Answered
    /\ avg.student_id \notin DOMAIN users
    /\ grades # <<>>
    /\ GradesOf(avg.student_id) = {}
    /\ avg.report.general_average = 0
    /\ avg.report.subject_averages = <<>>

\* C4: every subject_averages entry describes one existing subject in which
\* the student has a grade: its average is the mean of exactly that
\* student's values in the subject rounded to 2 decimals, its coefficient
\* the stored one, its grade_count the number of those grades; the
\* grade_counts sum to the number of the student's grades whose subject
\* exists.
C4_SubjectEntries ==
    Answered
    => /\ \A k \in DOMAIN Entries :
            LET sub == Entries[k].subject_id
            IN  /\ sub \in LiveSubjects(avg.student_id)
                /\ IsRounded2(Entries[k].average,
                              SubjectTotal(avg.student_id, sub),
                              SubjectCount(avg.student_id, sub))
                /\ Entries[k].coefficient = subjects[sub].coefficient
                /\ Entries[k].grade_count = SubjectCount(avg.student_id, sub)
       /\ EntryCounts
            = Cardinality({k \in GradesOf(avg.student_id) :
                              grades[k].subject_id \in DOMAIN subjects})

\* Two grades of the student in a subject in which another student has a
\* grade too.
C4_Witness ==
    /\ Answered
    /\ \E k \in DOMAIN Entries :
          /\ Entries[k].grade_count = 2
          /\ \E j \in 1..Len(grades) :
                /\ grades[j].student_id # avg.student_id
                /\ grades[j].subject_id = Entries[k].subject_id
                /\ grades[j].value * 100 # Entries[k].average

\* C5: a grade whose subject does not exist contributes to neither
\* subject_averages nor the weighted sum, and total_coefficient is the sum
\* of the coefficients of exactly the subjects listed.
C5_DanglingSubject ==
    (/\ Answered
     /\ ~ (GradedSubjects(avg.student_id) \subseteq DOMAIN subjects))
    => /\ \A k \in DOMAIN Entries : Entries[k].subject_id \in DOMAIN subjects
       /\ avg.report.total_coefficient
            = EntryCoefficients
       /\ LiveSubjects(avg.student_id) # {}
            => IsRounded2(avg.report.general_average,
                    WeightedNum(avg.student_id, LiveSubjects(avg.student_id)),
                    WeightedDen(avg.student_id, LiveSubjects(avg.student_id)))

\* The student has grades in an existing and in a missing subject, of
\* different values.
C5_Witness ==
    /\ Answered
    /\ Len(Entries) = 1
    /\ \E j \in GradesOf(avg.student_id) :
          /\ grades[j].subject_id \notin DOMAIN subjects
          /\ grades[j].value * 100 # avg.report.general_average
    /\ avg.report.total_coefficient = Entries[1].coefficient

\* C6: when the student has grades and none references an existing subject,
\* the result is the normal report general_average = 0, no subject,
\* total_coefficient = 0: no division by zero, no error.
C6_NoValidSubject ==
    (/\ avg.pc = "done"
     /\ avg.report.status # 403
     /\ GradesOf(avg.student_id) # {}
     /\ LiveSubjects(avg.student_id) = {})
    => /\ avg.report.status = 200
       /\ avg.report.general_average = 0
       /\ avg.report.subject_averages = <<>>
       /\ avg.report.total_coefficient = 0

C6_Witness ==
    /\ Answered
    /\ Cardinality(GradesOf(avg.student_id)) >= 2
    /\ subjects = <<>>
    /\ avg.report.general_average = 0
    /\ avg.report.total_coefficient = 0

\* C15: the report of calculate_student_average echoes the semester of the
\* request and is otherwise determined by the store alone: whatever the
\* semester (absent or a label), the subjects listed are the existing
\* subjects the student has a grade in, every such grade is counted, and
\* total_coefficient and general_average are those of all these grades.
C15_SemesterInert ==
    Answered
    => LET live == LiveSubjects(avg.student_id)
       IN  /\ avg.report.semester = avg.semester
           /\ {Entries[k].subject_id : k \in DOMAIN Entries} = live
           /\ EntryCounts
                = Cardinality({k \in GradesOf(avg.student_id) :
                                  grades[k].subject_id \in DOMAIN subjects})
           /\ avg.report.total_coefficient
                = FnSum([sub \in live |-> subjects[sub].coefficient])
           /\ IF live = {} THEN avg.report.general_average = 0
              ELSE IsRounded2(avg.report.general_average,
                              WeightedNum(avg.student_id, live),
                              WeightedDen(avg.student_id, live))

\* A request with a semester label answered with two subjects.
C15_Witness ==
    /\ Answered
    /\ avg.semester = Some("S1")
    /\ avg.report.semester = Some("S1")
    /\ Len(Entries) = 2
    /\ avg.report.general_average > 0

\* Position of the first grade of the subject in the fetched grades.
FirstSeen(fetched, subject_id) ==
    CHOOSE k \in 1..Len(fetched) :
        /\ fetched[k].subject_id = subject_id
        /\ \A j \in 1..(k - 1) : fetched[j].subject_id # subject_id

\* C16: in the report each subject appears at most once in
\* subject_averages, and the subjects are in the order in which their first
\* grade appears among the grades fetched for the student.
C16_FirstSeenOrder ==
    Answered
    => \A j, k \in DOMAIN Entries :
          j < k => /\ Entries[j].subject_id # Entries[k].subject_id
                   /\ FirstSeen(avg.grades, Entries[j].subject_id)
                        < FirstSeen(avg.grades, Entries[k].subject_id)

\* Subject B is listed before subject A: the student's first grade is in B,
\* and a grade in A lies between two grades in B.
C16_Witness ==
    /\ Answered
    /\ Len(Entries) = 2
    /\ Entries[1].subject_id = SubjectB /\ Entries[2].subject_id = SubjectA
    /\ Entries[1].grade_count = 2
    /\ Len(avg.grades) = 3
    /\ avg.grades[2].subject_id = SubjectA
\* ============================================== claims on the grade store
InRange(v) == 0 <= v /\ v <= 20

\* C7: in every reachable state of the grade store every stored grade has a
\* value v with 0 <= v <= 20.
C7_GradeValueInRange ==
    \A k \in 1..Len(grades) : InRange(grades[k].value)

\* A grade created with one bound of the range and updated to the other.
C7_Witness ==
    /\ ug.pc = "done" /\ ug.status = 200 /\ ug.value = Some(0)
    /\ \E k \in 1..Len(grades) : grades[k].value = 0
    /\ \E k \in 1..Len(grades) : grades[k].value = 20

\* A request record of a caller who passed the role check; it keeps the
\* value of the request up to the response.
Admitted(req) ==
    /\ req.pc # "idle"
    /\ req.pc = "done" => req.status # 403

\* C8: a create_grade or update_grade request (of a teacher or an admin)
\* whose value is outside [0, 20] ends at once in an error outcome and the
\* grade store is left as it was: nothing is inserted or modified, no
\* clamped value is stored.
C8_OutOfRangeRejected ==
    [][/\ (cg' # cg /\ Admitted(cg') /\ ~ InRange(cg'.value))
            => /\ cg'.pc = "done"
               /\ cg'.status = 422
               /\ grades' = grades
       /\ (ug' # ug /\ Admitted(ug') /\ ug'.value # None
              /\ ~ InRange(ug'.value[1]))
            => /\ ug'.pc = "done"
               /\ ug'.status = 422
               /\ grades' = grades]_vars

\* An update to 21 of an existing grade was refused by the validation and
\* so was a creation with -1; the stored grade kept its value.
C8_Witness ==
    /\ ug.pc = "done" /\ ug.status = 422 /\ ug.value = Some(21)
    /\ cg.pc = "done" /\ cg.status = 422 /\ cg.value = -1
    /\ Len(grades) = 1 /\ grades[1].value = 20

\* C9: whenever create_grade inserts a grade, the referenced student (a user
\* with role STUDENT) and the referenced subject exist in the store at the
\* moment of insertion; a create_grade that answers not-found inserts
\* nothing.
C9_InsertReferencesExisting ==
    [][/\ Len(grades') > Len(grades)
            => LET grade == grades'[Len(grades')]
               IN  /\ grade.student_id \in DOMAIN users
                   /\ users[grade.student_id].role = STUDENT
                   /\ grade.subject_id \in DOMAIN subjects
       /\ (cg' # cg /\ cg'.pc = "done" /\ cg'.status = 404)
            => grades' = grades]_vars

\* C10: once delete_user(s) has answered with success, no grade with
\* student_id = s is in the grade store in any later state.
C10_NoGradeOfDeletedUser ==
    \A s \in deleted : \A k \in 1..Len(grades) : grades[k].student_id # s

\* C17: an update_grade or delete_grade request ends in success or in a
\* not-found answer (a refused role or an invalid body apart), never in an
\* unhandled failure, and a not-found answer leaves the grades as they were,
\* whatever delete_grade or delete_user does to the same grade meanwhile.
C17_SuccessOrNotFound ==
    [][/\ (ug' # ug /\ ug'.pc = "done")
            => /\ ug'.status \in {200, 404, 403, 422}
               /\ ug'.status = 404 => grades' = grades
       /\ (dg' # dg /\ dg'.pc = "done")
            => /\ dg'.status \in {200, 404, 403}
               /\ dg'.status = 404 => grades' = grades]_vars

\* C19: the step of update_grade that writes changes, in the grade of the
\* given identifier, only the value and the comment, each only when the
\* request supplies it, and the modified_at/modified_by metadata; the
\* grade's identifier, student, subject, date and recording teacher, and
\* every other grade, are as before; no other step of update_grade writes.
C19_UpdateFrame ==
    [][/\ (ug' # ug /\ ug.pc = "update_one")
            => LET k == GradeIndex(grades, ug.grade_id)
               IN  /\ Len(grades') = Len(grades)
                   /\ \A j \in 1..Len(grades) :
                         j # k => grades'[j] = grades[j]
                   /\ k # 0 =>
                        /\ \A f \in {"id", "student_id", "subject_id", "date",
                                     "recorded_by_teacher_id"} :
                              grades'[k][f] = grades[k][f]
                        /\ grades'[k].value
                             = IF ug.value = None THEN grades[k].value
                               ELSE ug.value[1]
                        /\ grades'[k].comment
                             = IF ug.comment = None THEN grades[k].comment
                               ELSE ug.comment
                        /\ DOMAIN grades'[k]
                             = DOMAIN grades[k]
                                 \cup {"modified_at", "modified_by"}
                        /\ grades'[k].modified_by = ug.current_user.id
       /\ (ug' # ug /\ ug.pc # "update_one") => grades' = grades]_vars

\* An update of the value alone succeeded: grade 1 has the new value, its
\* comment and recording teacher, and grade 2 was never modified.
C19_Witness ==
    /\ ug.pc = "done" /\ ug.status = 200 /\ ug.value = Some(15)
    /\ Len(grades) = 2
    /\ grades[1].value = 15 /\ grades[1].comment = Some("c0")
    /\ grades[1].recorded_by_teacher_id = TeacherId
    /\ grades[1].modified_by = AdminId
    /\ "modified_by" \notin DOMAIN grades[2]

\* The request record is that of a caller with role STUDENT.
ByStudent(req) ==
    "current_user" \in DOMAIN req /\ req.current_user.role = STUDENT
\* The request record is that of a caller with role TEACHER or ADMIN.
ByStaff(req) ==
    "current_user" \in DOMAIN req /\ req.current_user.role \in {TEACHER, ADMIN}

\* C20: only requests of callers with role TEACHER or ADMIN change the
\* grade store; a create_grade, update_grade or delete_grade request of a
\* caller with role STUDENT ends at once in forbidden and leaves every grade
\* as it was.
C20_OnlyStaffChangesGrades ==
    [][/\ grades' # grades
            => \/ cg' # cg /\ cg.pc = "insert" /\ ByStaff(cg)
               \/ ug' # ug /\ ug.pc = "update_one" /\ ByStaff(ug)
               \/ dg' # dg /\ dg.pc = "delete_one" /\ ByStaff(dg)
               \/ du' # du /\ du.pc = "delete_many" /\ ByStaff(du)
       /\ (cg' # cg /\ ByStudent(cg'))
            => cg'.pc = "done" /\ cg'.status = 403 /\ grades' = grades
       /\ (ug' # ug /\ ByStudent(ug'))
            => ug'.pc = "done" /\ ug'.status = 403 /\ grades' = grades
       /\ (dg' # dg /\ ByStudent(dg'))
            => dg'.pc = "done" /\ dg'.status = 403 /\ grades' = grades]_vars

\* A student's update and deletion of an existing grade were both refused
\* and the grade is as it was created.
C20_Witness ==
    /\ ug.pc = "done" /\ ug.status = 403 /\ ByStudent(ug)
    /\ dg.pc = "done" /\ dg.status = 403 /\ ByStudent(dg)
    /\ Len(grades) = 1 /\ grades[1].value = 20
\* ================================================== claims on the readers
ReadRequests == <<gsg, avg, tp>>
\* The status of the response of a reader.
Outcome(r) == IF "report" \in DOMAIN r THEN r.report.status ELSE r.status
Permitted(r) ==
    \/ r.current_user.id = r.student_id
    \/ r.current_user.role \in {TEACHER, ADMIN}
\* The response r carries no grade, average or document.
NoGradeData(r) ==
    /\ "result" \in DOMAIN r => r.result = <<>>
    /\ "report" \in DOMAIN r => r.grades = <<>> /\ DOMAIN r.report = {"status"}
    /\ "rendered" \in DOMAIN r => r.rendered = None /\ r.transcript_id = None

\* C11: get_student_grades, calculate_student_average and
\* generate_transcript_pdf go on to read the store for student_id only when
\* the caller's identifier is student_id or the caller's role is TEACHER or
\* ADMIN; a STUDENT caller with another identifier is answered forbidden and
\* receives no grade data.
C11_ReadOnlyIfPermitted ==
    \A k \in DOMAIN ReadRequests :
        LET r == ReadRequests[k]
        IN  r.pc # "idle"
            => /\ (r.pc # "done" \/ Outcome(r) # 403) => Permitted(r)
               /\ (r.current_user.role = STUDENT
                      /\ r.current_user.id # r.student_id)
                    => /\ r.pc = "done"
                       /\ Outcome(r) = 403
                       /\ NoGradeData(r)

\* Student s1 asked for the grades of student s2, who has grades.
C11_Witness ==
    /\ gsg.pc = "done" /\ gsg.status = 403
    /\ gsg.current_user.id = "s1" /\ gsg.student_id = "s2"
    /\ \E k \in 1..Len(grades) : grades[k].student_id = "s2"
    /\ gsg.result = <<>>

\* C12: a STUDENT caller asking for the grades, the average or the
\* transcript of another identifier is answered forbidden, never not-found,
\* and with the same empty response whether or not the identifier is a user.
C12_ForbiddenNotNotFound ==
    \A k \in DOMAIN ReadRequests :
        LET r == ReadRequests[k]
        IN  (/\ r.pc = "done"
             /\ r.current_user.role = STUDENT
             /\ r.current_user.id # r.student_id)
            => /\ Outcome(r) # 404
               /\ Outcome(r) = 403
               /\ r.student_id \notin DOMAIN users => NoGradeData(r)

\* Student s1 asked for the transcript of an identifier that is no user.
C12_Witness ==
    /\ tp.pc = "done" /\ tp.status = 403
    /\ tp.current_user.id = "s1"
    /\ tp.student_id \notin DOMAIN users

\* C13: generate_transcript_pdf answers not-found, renders nothing and
\* inserts no transcript record whenever student_id is not a user with role
\* STUDENT, also when it is a teacher's or an admin's account.
C13_NotFoundUnlessStudent ==
    (/\ tp.pc = "done"
     /\ tp.status # 403
     /\ ~ (tp.student_id \in DOMAIN users
             /\ users[tp.student_id].role = STUDENT))
    => /\ tp.status = 404
       /\ tp.rendered = None
       /\ \A k \in 1..Len(transcripts) :
             transcripts[k].student_id # tp.student_id

\* C14: a generate_transcript_pdf request that returns a document inserts
\* exactly one transcript record, with a fresh identifier, the requested
\* student_id, status GENERATED and the request's semester; a request that
\* ends in forbidden or not-found leaves the transcripts as they were; no
\* step of the readers changes grades, subjects or users.
C14_TranscriptRecord ==
    [][/\ (tp' # tp /\ tp'.pc = "done" /\ tp'.status = 200)
            => /\ Len(transcripts') = Len(transcripts) + 1
               /\ SubSeq(transcripts', 1, Len(transcripts)) = transcripts
               /\ LET record == transcripts'[Len(transcripts')]
                  IN  /\ \A k \in 1..Len(transcripts) :
                            transcripts[k].id # record.id
                      /\ tp'.transcript_id = Some(record.id)
                      /\ record.student_id = tp'.student_id
                      /\ record.status = "GENERATED"
                      /\ record.semester = tp'.semester
       /\ (tp' # tp /\ tp'.pc = "done" /\ tp'.status # 200)
            => transcripts' = transcripts
       /\ transcripts' # transcripts
            => tp'.pc = "done" /\ tp'.status = 200
       /\ <<users, subjects, grades>>' = <<users, subjects, grades>>]_vars

\* Two transcripts of the same student, one without and one with a
\* semester, the second one just returned.
C14_Witness ==
    /\ tp.pc = "done" /\ tp.status = 200 /\ tp.semester = Some("S1")
    /\ Len(transcripts) = 2
    /\ transcripts[1].student_id = tp.student_id
    /\ transcripts[1].semester = None
    /\ transcripts[2].semester = Some("S1")
    /\ transcripts[1].id # transcripts[2].id
\* ============================================== claims on the user store
\* The users that hold the student number num.
HoldersOf(us, num) ==
    {u \in DOMAIN us :
        "student_id_num" \in DOMAIN us[u] /\ us[u].student_id_num = num}

\* C18: after any interleaving of register_student, register_teacher and
\* delete_user requests no two users have the same student number, and a
\* register_student request whose student number, username or email is held
\* by an existing user inserts nothing.
C18_UniqueStudentNumber ==
    [][/\ \A u \in DOMAIN users' :
            "student_id_num" \in DOMAIN users'[u]
               => HoldersOf(users', users'[u].student_id_num) = {u}
       /\ \A w \in DOMAIN rs :
            (rs'[w] # rs[w] /\ rs[w].pc = "insert")
               => /\ ~ UserWith("username", rs[w].student_request.username)
                  /\ ~ UserWith("email", rs[w].student_request.email)
                  /\ ~ UserWith("student_id_num",
                                rs[w].student_request.student_id_num)]_vars
\* ============================================= claims on authentication
\* C21 (first sentence): a token that login issued to one account never
\* authenticates a later request as another account: every request that
\* carries it and is answered 200 is answered with the _id of the account
\* the token was issued to.
C21_TokenKeepsItsAccount ==
    (au.pc = "done" /\ au.status = 200) => au.id = au.issued.issued_to

\* ============================================ claims on the interleavings
RECURSIVE GroupAll(_, _)
\* The loop of lines 298-310 run without interruption over the list gs.
GroupAll(subjects_data, gs) ==
    IF gs = <<>> THEN subjects_data
    ELSE GroupAll(group_grade(subjects_data, Head(gs), subjects), Tail(gs))

\* The report of the student for the list gs of its grades.
ReportOf(gs, student_id, semester) ==
    IF gs = <<>> THEN empty_report(student_id, semester)
    ELSE build_report(student_id, GroupAll(<<>>, gs), semester)

\* C22: a report calculate_student_average returns, whatever create_grade,
\* update_grade, delete_grade and delete_user requests for the same student
\* ran between its steps, is the report of the list of grades the student
\* had in the store at one instant between the request and the response.
C22_SingleSnapshot ==
    (avg.pc = "done" /\ avg.report.status = 200) =>
        \E gs \in snaps :
            avg.report = ReportOf(gs, avg.student_id, avg.semester)

\* A report was returned while the student's grades went through at least
\* three lists, one of which gives another report.
C22_Witness ==
    /\ avg.pc = "done"
    /\ avg.report.status = 200
    /\ avg.report.subject_averages # <<>>
    /\ Cardinality(snaps) >= 3
    /\ \E gs \in snaps :
          avg.report # ReportOf(gs, avg.student_id, avg.semester)

\* ================================================== claims on the ranges
\* Every stored grade value is in [0, 20] and every stored coefficient in
\* [0.1, 10.0].
StoreInRange ==
    /\ \A k \in 1..Len(grades) : InRange(grades[k].value)
    /\ \A sub \in DOMAIN subjects :
          /\ MinCoefficient <= subjects[sub].coefficient
          /\ subjects[sub].coefficient <= MaxCoefficient

\* A rounded average, in hundredths, is in [0, 20].
AverageInRange(h) == 100 * MinValue <= h /\ h <= 100 * MaxValue

\* C23: over a store whose grade values are in [0, 20] and whose
\* coefficients are in [0.1, 10.0], every per-subject average and the
\* general_average of a report of calculate_student_average are in [0, 20],
\* and total_coefficient > 0 exactly when subject_averages is not empty.
C23_ReportRanges ==
    (Answered /\ StoreInRange) =>
        /\ \A k \in DOMAIN Entries : AverageInRange(Entries[k].average)
        /\ AverageInRange(avg.report.general_average)
        /\ (avg.report.total_coefficient > 0) <=> (Entries # <<>>)

\* A report of four grades with a subject at either end of the range, the
\* larger coefficient on the subject at 20.
C23_Witness ==
    /\ Answered
    /\ StoreInRange
    /\ Len(avg.grades) = 4
    /\ Len(Entries) = 2
    /\ \E j, k \in DOMAIN Entries :
          /\ Entries[j].average = 100 * MinValue
          /\ Entries[j].coefficient = MinCoefficient
          /\ Entries[k].average = 100 * MaxValue
          /\ Entries[k].coefficient = MaxCoefficient

====
